---- MODULE Spec2Model ----
(***************************************************************************)
(* Model of the GDPR retrieval-augmented QA pipeline:                      *)
(*   - chat.py      : the conversation session (one script run per widget  *)
(*                    event), get_context, the citation re-parse loop and  *)
(*                    get_chat_response;                                   *)
(*   - embedding.py : the index build (create-or-overwrite of the table    *)
(*                    "docling", metadata derivation, batch insertion).    *)
(* Text is modelled as a sequence of one-character strings, so that        *)
(* joining, splitting and stripping are computed character by character.   *)
(***************************************************************************)
EXTENDS Integers, Sequences, FiniteSets, TLC

VARIABLES
    messages,    \* st.session_state.messages: sequence of [role, content]
    pc,          \* position of the session: Idle / AwaitingContext / AwaitingAnswer
    event,       \* the widget event that started the latest script run
    prompt,      \* the prompt of the running turn
    retrieval,   \* outcome of table.search in the running turn
    generation,  \* outcome of client.chat.completions.create in the running turn
    genInput,    \* messages_with_context handed to the Answer Generator
    runError,    \* an uncaught exception ended the latest script run
    results,     \* rows returned by table.search
    context,     \* the string returned by get_context
    citations,   \* the panels rendered by the re-parse loop
    stage,       \* position of the stand-alone assemble / re-parse run
    table,       \* rows of the LanceDB table "docling"
    chunks,      \* per build: the chunk sequence it indexes
    bpc,         \* per build: position in embedding.py
    bi,          \* per build: loop variable i of the batch loop
    prev,        \* rows the table held when the first build started
    submitted,   \* per build: the batches handed to table.add, in order
    pdf_files,   \* extract_pdf_documents: the PDFs found, each with what convert does
    xpc,         \* position in extract_pdf_documents
    xi,          \* number of PDFs the extraction loop has passed
    documents,   \* extract_pdf_documents: the list it returns
    extracted,   \* the JSON files in data-pipeline/extracted-pdfs
    cpc,         \* position in chunk_markdown_files
    ci,          \* number of JSON files the chunking loop has passed
    all_chunks,  \* chunk_markdown_files: the list it returns
    cache,       \* data-pipeline/chunks.pkl: absent, or the stored chunk sequence
    rpc,         \* position of the pipeline run (embedding.py) before the index build
    runs,        \* number of pipeline runs started
    cacheAtStart, \* the cache artifact as it was when the latest run started
    chunked      \* the latest run called chunk_markdown_files

chatVars  == <<messages, pc, event, prompt, retrieval, generation, genInput, runError>>
ctxVars   == <<results, context, citations>>
buildVars == <<chunks, bpc, bi, prev, submitted>>
pipeVars  == <<pdf_files, xpc, xi, documents, extracted, cpc, ci, all_chunks,
               cache, rpc, runs, cacheAtStart, chunked>>
vars == <<messages, pc, event, prompt, retrieval, generation, genInput, runError,
          results, context, citations, stage, table, chunks, bpc, bi, prev, submitted,
          pdf_files, xpc, xi, documents, extracted, cpc, ci, all_chunks,
          cache, rpc, runs, cacheAtStart, chunked>>

----------------------------------------------------------------------------
(* Bounds of the model *)

MaxResults == 2      \* longest result sequence drawn for assemble / re-parse
MaxMessages == 4     \* a prompt is admitted while the history is shorter
MaxBatches == 2      \* builds index up to MaxBatches full batches ...
MaxExtra == 2        \* ... plus up to MaxExtra further chunks
MaxRuns == 3         \* pipeline runs started in a row
MaxPdfs == 3         \* PDFs found in the pdf folder
MaxFiles == 2        \* JSON files found in the extracted folder
MaxChunks == 2       \* chunks the chunker yields over all files of one call

(* Program constants *)

num_results == 10    \* default of get_context's num_results
batch_size == 100    \* embedding.py batch_size

----------------------------------------------------------------------------
(* Text: sequences of one-character strings *)

NL == "\n"
SP == " "

\* Python's None and a present value, for the optional metadata fields
None == <<>>
Some(x) == <<x>>
IsNone(o) == o = <<>>
Val(o) == o[1]

\* truthiness of an optional string: neither None nor ""
Truthy(o) == ~IsNone(o) /\ Val(o) # <<>>

RECURSIVE JoinFrom(_, _, _)
JoinFrom(parts, sep, i) ==
    IF i > Len(parts) THEN <<>>
    ELSE IF i = Len(parts) THEN parts[i]
    ELSE parts[i] \o sep \o JoinFrom(parts, sep, i + 1)

\* sep.join(parts)
Join(parts, sep) == JoinFrom(parts, sep, 1)

RECURSIVE SplitFrom(_, _, _, _)
SplitFrom(s, sep, i, start) ==
    IF i + Len(sep) - 1 > Len(s) THEN << SubSeq(s, start, Len(s)) >>
    ELSE IF SubSeq(s, i, i + Len(sep) - 1) = sep
         THEN << SubSeq(s, start, i - 1) >>
              \o SplitFrom(s, sep, i + Len(sep), i + Len(sep))
         ELSE SplitFrom(s, sep, i + 1, start)

\* s.split(sep): leftmost non-overlapping occurrences, empty pieces kept
Split(s, sep) == SplitFrom(s, sep, 1, 1)

\* sep in s
Contains(s, sep) == Len(Split(s, sep)) > 1

Whitespace == {SP, NL}

RECURSIVE LStrip(_)
LStrip(s) == IF s # <<>> /\ Head(s) \in Whitespace THEN LStrip(Tail(s)) ELSE s

RECURSIVE RStrip(_)
RStrip(s) ==
    IF s # <<>> /\ s[Len(s)] \in Whitespace THEN RStrip(SubSeq(s, 1, Len(s) - 1)) ELSE s

\* s.strip()
Strip(s) == RStrip(LStrip(s))

Digits == <<"0", "1", "2", "3", "4", "5", "6", "7", "8", "9">>

RECURSIVE IntToStr(_)
\* str(p) for a page number p >= 0
IntToStr(n) ==
    IF n < 10 THEN << Digits[n + 1] >>
    ELSE IntToStr(n \div 10) \o << Digits[(n % 10) + 1] >>

----------------------------------------------------------------------------
(* chat.py: get_context *)

SourceLabel == <<NL, "S", "o", "u", "r", "c", "e", ":", SP>>
TitleLabel  == <<NL, "T", "i", "t", "l", "e", ":", SP>>
PageLabel   == <<"p", ".", SP>>
PartSep     == <<SP, "-", SP>>
CommaSep    == <<",", SP>>
BlankLine   == <<NL, NL>>

\* ', '.join(str(p) for p in page_numbers)
PageList(page_numbers) ==
    Join([i \in 1..Len(page_numbers) |-> IntToStr(page_numbers[i])], CommaSep)

\* source_parts of one row
source_parts(row) ==
    (IF Truthy(row.metadata.filename) THEN << Val(row.metadata.filename) >> ELSE <<>>)
    \o (IF ~IsNone(row.metadata.page_numbers) /\ Len(Val(row.metadata.page_numbers)) > 0
        THEN << PageLabel \o PageList(Val(row.metadata.page_numbers)) >>
        ELSE <<>>)

\* the string appended to contexts for one row
RenderRow(row) ==
    row.text
    \o SourceLabel \o Join(source_parts(row), PartSep)
    \o (IF Truthy(row.metadata.title) THEN TitleLabel \o Val(row.metadata.title) ELSE <<>>)

\* get_context on the rows the search returned
get_context(rows) ==
    Join([i \in 1..Len(rows) |-> RenderRow(rows[i])], BlankLine)
----------------------------------------------------------------------------
(* chat.py: the citation re-parse loop of the turn handler *)

ColonSep == <<":", SP>>
UnknownSource   == <<"Unknown source">>
UntitledSection == <<"Untitled section">>
SourceKey == <<"S", "o", "u", "r", "c", "e">>
TitleKey  == <<"T", "i", "t", "l", "e">>

\* parts = chunk.split("\n")
Parts(chunk) == Split(chunk, <<NL>>)

RECURSIVE MetaGetFrom(_, _, _, _)
\* metadata.get(key, default) on the dict built from lines[i..]: a later line
\* with the same key replaces an earlier one
MetaGetFrom(lines, key, default, i) ==
    IF i > Len(lines) THEN default
    ELSE LET line == lines[i]
             sofar == IF Contains(line, ColonSep) /\ Split(line, ColonSep)[1] = key
                      THEN Split(line, ColonSep)[2]
                      ELSE default
         IN  MetaGetFrom(lines, key, sofar, i + 1)

\* {line.split(": ")[0]: line.split(": ")[1] for line in parts[1:] if ": " in line}.get(key, default)
MetaGet(parts, key, default) == MetaGetFrom(Tail(parts), key, default, 1)

\* a chunk is rendered unless its first line is empty after strip()
Shown(chunk) == Strip(Parts(chunk)[1]) # <<>>

\* the panel rendered for one chunk
Panel(chunk) ==
    [ source |-> MetaGet(Parts(chunk), SourceKey, UnknownSource),
      title  |-> MetaGet(Parts(chunk), TitleKey, UntitledSection),
      text   |-> Strip(Parts(chunk)[1]) ]

\* all panels rendered from the context string, in order
ParseCitations(ctx) ==
    LET shown == SelectSeq(Split(ctx, BlankLine), Shown)
    IN  [i \in 1..Len(shown) |-> Panel(shown[i])]

----------------------------------------------------------------------------
(* chat.py: get_chat_response *)

SystemPromptHead == <<"You are a GDPR compliance assistant. ... Context:", NL>>
ApologyText == <<"Sorry, an error occurred while generating the response.">>

\* what the completion call does: it raises, or it streams a reply
GenOutcomes == { [raised |-> TRUE, reply |-> <<>>], [raised |-> FALSE, reply |-> <<"r">>] }

\* messages_with_context
MessagesWithContext(msgs, ctx) ==
    << [role |-> "system", content |-> SystemPromptHead \o ctx \o <<NL>>] >> \o msgs

\* get_chat_response without the fixed reply of the except branch
get_chat_response_no_apology(msgs, ctx, gen) == gen.reply

\* get_chat_response: gen is what the completion call does for this input
get_chat_response(msgs, ctx, gen) ==
    IF gen.raised THEN ApologyText ELSE gen.reply

----------------------------------------------------------------------------
(* Inputs for the stand-alone assemble / re-parse run *)

Texts == { <<"a">>, <<"b", SP, "c">>, <<"a", NL, "b">>, <<"a", NL, NL, "b">> }
Filenames == { None, Some(<<"f", ".", "p", "d", "f">>) }
PageNumbers == { None, Some(<<1>>), Some(<<2, 10>>) }
Titles == { None, Some(<<"T">>), Some(<<"A", ":", SP, "B">>) }

Rows ==
    { [text |-> t, metadata |-> [filename |-> f, page_numbers |-> p, title |-> h]] :
        t \in Texts, f \in Filenames, p \in PageNumbers, h \in Titles }

RowSeqs == UNION { [1..n -> Rows] : n \in 0..MaxResults }

----------------------------------------------------------------------------
(* Stand-alone run of get_context and the re-parse loop on drawn results *)

Assemble ==
    /\ stage = "input"
    /\ context' = get_context(results)
    /\ stage' = "assembled"
    /\ UNCHANGED <<results, citations, table>>
    /\ UNCHANGED chatVars
    /\ UNCHANGED buildVars
    /\ UNCHANGED pipeVars

Reparse ==
    /\ stage = "assembled"
    /\ citations' = ParseCitations(context)
    /\ stage' = "parsed"
    /\ UNCHANGED <<results, context, table>>
    /\ UNCHANGED chatVars
    /\ UNCHANGED buildVars
    /\ UNCHANGED pipeVars

\* no extraction, chunking or pipeline run is under way
PipeOff ==
    /\ pdf_files = <<>>
    /\ xpc = "off"
    /\ xi = 0
    /\ documents = <<>>
    /\ extracted = <<>>
    /\ cpc = "off"
    /\ ci = 0
    /\ all_chunks = <<>>
    /\ cache = None
    /\ rpc = "off"
    /\ runs = 0
    /\ cacheAtStart = None
    /\ chunked = FALSE

ChatIdle ==
    /\ messages = <<>>
    /\ pc = "Idle"
    /\ event = [kind |-> "none", during |-> "Idle"]
    /\ prompt = <<>>
    /\ retrieval = "none"
    /\ generation = "none"
    /\ genInput = <<>>
    /\ runError = FALSE

Builders == {1, 2}

\* no index build is running
BuildOff ==
    /\ chunks = [b \in Builders |-> <<>>]
    /\ bpc = [b \in Builders |-> "off"]
    /\ bi = [b \in Builders |-> 0]
    /\ prev = <<>>
    /\ submitted = [b \in Builders |-> <<>>]

InitContext ==
    /\ results \in RowSeqs
    /\ context = <<>>
    /\ citations = <<>>
    /\ stage = "input"
    /\ table = <<>>
    /\ ChatIdle
    /\ BuildOff
    /\ PipeOff

NextContext == Assemble \/ Reparse

SpecContext == InitContext /\ [][NextContext]_vars
----------------------------------------------------------------------------
(* chat.py: the conversation session.  Every widget event starts a script  *)
(* run; the script has no busy guard, so an event that arrives while a run *)
(* is between its two appends stops that run where it is and starts the    *)
(* next one on the same session state.                                     *)

Prompts == { <<"q">>, <<"w">> }

RowFull ==
    [text |-> <<"a">>,
     metadata |-> [filename |-> Some(<<"f">>), page_numbers |-> Some(<<1, 2>>),
                   title |-> Some(<<"T">>)]]
RowBare ==
    [text |-> <<"b">>,
     metadata |-> [filename |-> None, page_numbers |-> None, title |-> None]]

ChatTables == { <<>>, <<RowFull>>, <<RowFull, RowBare>> }

Min(a, b) == IF a <= b THEN a ELSE b

\* table.search(query).limit(k): the k best rows (all rows when the table has
\* fewer), in an order decided by the store
Search(tbl, k) ==
    LET m == Min(k, Len(tbl))
        picks == { f \in [1..m -> 1..Len(tbl)] :
                     \A i, j \in 1..m : i # j => f[i] # f[j] }
    IN  { [i \in 1..m |-> tbl[f[i]]] : f \in picks }

\* locals of a script run, as they are when a run starts
FreshRun ==
    /\ retrieval' = "none"
    /\ generation' = "none"
    /\ genInput' = <<>>
    /\ runError' = FALSE
    /\ results' = <<>>
    /\ context' = <<>>
    /\ citations' = <<>>

\* "Clear Conversation" pressed
Clear ==
    /\ stage = "chat"
    /\ event' = [kind |-> "clear", during |-> pc]
    /\ messages' = <<>>
    /\ pc' = "Idle"
    /\ prompt' = <<>>
    /\ FreshRun
    /\ UNCHANGED <<stage, table>>
    /\ UNCHANGED buildVars
    /\ UNCHANGED pipeVars

\* a prompt submitted in the chat input: display it, append the user message
Submit(p) ==
    /\ stage = "chat"
    /\ Len(messages) < MaxMessages
    /\ event' = [kind |-> "submit", during |-> pc]
    /\ messages' = Append(messages, [role |-> "user", content |-> p])
    /\ pc' = "AwaitingContext"
    /\ prompt' = p
    /\ FreshRun
    /\ UNCHANGED <<stage, table>>
    /\ UNCHANGED buildVars
    /\ UNCHANGED pipeVars

\* get_context returns; the re-parse loop renders the panels
RetrieveOk ==
    /\ pc = "AwaitingContext"
    /\ \E r \in Search(table, num_results) :
          /\ results' = r
          /\ context' = get_context(r)
          /\ citations' = ParseCitations(get_context(r))
    /\ retrieval' = "ok"
    /\ pc' = "AwaitingAnswer"
    /\ UNCHANGED <<messages, event, prompt, generation, genInput, runError, stage, table>>
    /\ UNCHANGED buildVars
    /\ UNCHANGED pipeVars

\* table.search raises inside get_context: nothing catches it, the run ends
RetrieveRaise ==
    /\ pc = "AwaitingContext"
    /\ retrieval' = "raised"
    /\ runError' = TRUE
    /\ pc' = "Idle"
    /\ UNCHANGED <<messages, event, prompt, generation, genInput, stage, table>>
    /\ UNCHANGED ctxVars
    /\ UNCHANGED buildVars
    /\ UNCHANGED pipeVars

\* get_chat_response returns and the assistant message is appended
Answer(gen) ==
    /\ pc = "AwaitingAnswer"
    /\ genInput' = MessagesWithContext(messages, context)
    /\ generation' = IF gen.raised THEN "raised" ELSE "ok"
    /\ messages' = Append(messages,
                          [role |-> "assistant",
                           content |-> get_chat_response(messages, context, gen)])
    /\ pc' = "Idle"
    /\ UNCHANGED <<event, prompt, retrieval, runError, stage, table>>
    /\ UNCHANGED ctxVars
    /\ UNCHANGED buildVars
    /\ UNCHANGED pipeVars

Init ==
    /\ ChatIdle
    /\ results = <<>>
    /\ context = <<>>
    /\ citations = <<>>
    /\ stage = "chat"
    /\ table \in ChatTables
    /\ BuildOff
    /\ PipeOff

Next ==
    \/ Clear
    \/ \E p \in Prompts : Submit(p)
    \/ RetrieveOk
    \/ RetrieveRaise
    \/ \E gen \in GenOutcomes : Answer(gen)

Spec == Init /\ [][Next]_vars
----------------------------------------------------------------------------
(* embedding.py: the index build.  A build is one run of the script from   *)
(* db.create_table(..., mode="overwrite") to the end of the batch loop; an *)
(* exception of table.add ends the run.                                    *)

RECURSIVE SortSet(_)
\* sorted(S) for a set of integers
SortSet(S) ==
    IF S = {} THEN <<>>
    ELSE LET m == CHOOSE x \in S : \A y \in S : x <= y
         IN  <<m>> \o SortSet(S \ {m})

\* the i-th chunk of build b: its text, origin file, the page_no of every
\* provenance record of its doc_items, and its heading path
Chunk(b, i) ==
    [ text     |-> <<"c">> \o IntToStr(i),
      filename |-> <<"d", Digits[b + 1]>>,
      pages    |-> IF i % 3 = 0 THEN <<>>
                   ELSE IF i % 3 = 1 THEN <<2, 1, 2>> ELSE <<3>>,
      headings |-> IF i % 2 = 0 THEN <<>> ELSE << <<"H">>, <<"S">> >> ]

ChunkSeq(b, n) == [i \in 1..n |-> Chunk(b, i)]

\* meta of one chunk
DeriveMeta(chunk) ==
    LET pageset == { chunk.pages[k] : k \in 1..Len(chunk.pages) }
    IN  [ filename     |-> Some(chunk.filename),
          page_numbers |-> IF pageset = {} THEN None ELSE Some(SortSet(pageset)),
          title        |-> IF chunk.headings # <<>> THEN Some(chunk.headings[1]) ELSE None ]

\* processed_chunks
Processed(cs) ==
    [i \in 1..Len(cs) |-> [text |-> cs[i].text, metadata |-> DeriveMeta(cs[i])]]

\* the slice taken one record too long
BatchTooLong(processed, i) ==
    SubSeq(processed, i + 1, Min(i + batch_size + 1, Len(processed)))

\* processed_chunks[i : i + batch_size]
Batch(processed, i) ==
    SubSeq(processed, i + 1, Min(i + batch_size, Len(processed)))

RECURSIVE Flatten(_)
Flatten(batches) ==
    IF batches = <<>> THEN <<>> ELSE Head(batches) \o Flatten(Tail(batches))

\* db.create_table("docling", schema=Chunks, mode="overwrite")
CreateTable(b) ==
    /\ bpc[b] = "start"
    /\ table' = <<>>
    /\ bi' = [bi EXCEPT ![b] = 0]
    /\ bpc' = [bpc EXCEPT ![b] = "inserting"]
    /\ UNCHANGED <<chunks, prev, submitted, stage>>
    /\ UNCHANGED chatVars
    /\ UNCHANGED ctxVars
    /\ UNCHANGED pipeVars

\* one pass of the batch loop: table.add(batch) succeeds
AddBatch(b) ==
    /\ bpc[b] = "inserting"
    /\ bi[b] < Len(chunks[b])
    /\ LET batch == Batch(Processed(chunks[b]), bi[b])
       IN  /\ table' = table \o batch
           /\ submitted' = [submitted EXCEPT ![b] = Append(@, batch)]
    /\ bi' = [bi EXCEPT ![b] = @ + batch_size]
    /\ UNCHANGED <<chunks, bpc, prev, stage>>
    /\ UNCHANGED chatVars
    /\ UNCHANGED ctxVars
    /\ UNCHANGED pipeVars

\* one pass of the batch loop: table.add(batch) raises, the script ends
AddBatchRaises(b) ==
    /\ bpc[b] = "inserting"
    /\ bi[b] < Len(chunks[b])
    /\ submitted' = [submitted EXCEPT ![b] = Append(@, Batch(Processed(chunks[b]), bi[b]))]
    /\ bpc' = [bpc EXCEPT ![b] = "failed"]
    /\ UNCHANGED <<chunks, bi, prev, table, stage>>
    /\ UNCHANGED chatVars
    /\ UNCHANGED ctxVars
    /\ UNCHANGED pipeVars

\* the batch loop is exhausted: "Insertion complete."
Finish(b) ==
    /\ bpc[b] = "inserting"
    /\ bi[b] >= Len(chunks[b])
    /\ bpc' = [bpc EXCEPT ![b] = "done"]
    /\ UNCHANGED <<chunks, bi, prev, submitted, table, stage>>
    /\ UNCHANGED chatVars
    /\ UNCHANGED ctxVars
    /\ UNCHANGED pipeVars

\* chunk counts of the builds: around the batch boundaries
Sizes == { k * batch_size + r : k \in 0..MaxBatches, r \in 0..MaxExtra }

ChatOff ==
    /\ ChatIdle
    /\ results = <<>>
    /\ context = <<>>
    /\ citations = <<>>
    /\ stage = "build"

\* one build, over whatever the table held before
InitBuild ==
    /\ ChatOff
    /\ table \in ChatTables
    /\ prev = table
    /\ \E n \in Sizes : chunks = [b \in Builders |-> IF b = 1 THEN ChunkSeq(b, n) ELSE <<>>]
    /\ bpc = [b \in Builders |-> IF b = 1 THEN "start" ELSE "off"]
    /\ bi = [b \in Builders |-> 0]
    /\ submitted = [b \in Builders |-> <<>>]
    /\ PipeOff

\* two builds started concurrently
InitBuild2 ==
    /\ ChatOff
    /\ table \in ChatTables
    /\ prev = table
    /\ \E n1, n2 \in Sizes :
          chunks = [b \in Builders |-> IF b = 1 THEN ChunkSeq(b, n1) ELSE ChunkSeq(b, n2)]
    /\ bpc = [b \in Builders |-> "start"]
    /\ bi = [b \in Builders |-> 0]
    /\ submitted = [b \in Builders |-> <<>>]
    /\ PipeOff

NextBuild ==
    \E b \in Builders :
        \/ CreateTable(b)
        \/ AddBatch(b)
        \/ AddBatchRaises(b)
        \/ Finish(b)

SpecBuild == InitBuild /\ [][NextBuild]_vars

SpecBuild2 == InitBuild2 /\ [][NextBuild]_vars
----------------------------------------------------------------------------
(* Properties of the conversation session (specification Spec) *)

Alternates(msgs) ==
    \A i \in 1..Len(msgs) : msgs[i].role = (IF i % 2 = 1 THEN "user" ELSE "assistant")

\* C1: a turn runs Idle -> AwaitingContext -> AwaitingAnswer -> Idle: while
\* the context is awaited the history ends with the user message of the turn,
\* the Answer Generator gets the system message followed by the whole history
\* ending with that user message, the assistant message is appended last, and
\* whenever the session is Idle the history has even length and alternates
\* user, assistant, user, assistant, ...
C1_TurnOrderAndAlternation ==
    /\ pc \in {"Idle", "AwaitingContext", "AwaitingAnswer"}
    /\ pc # "Idle" =>
          /\ messages # <<>>
          /\ messages[Len(messages)] = [role |-> "user", content |-> prompt]
    /\ generation # "none" =>
          /\ Len(genInput) >= 2
          /\ genInput[1].role = "system"
          /\ genInput[Len(genInput)] = [role |-> "user", content |-> prompt]
          /\ messages = Tail(genInput) \o << messages[Len(messages)] >>
          /\ messages[Len(messages)].role = "assistant"
    /\ pc = "Idle" => (Len(messages) % 2 = 0 /\ Alternates(messages))

\* C2: when retrieval fails in a turn, get_context yields the empty context
\* string and no error, and the turn goes on to answer generation and ends with
\* an assistant message after the user message; a search of a table with zero
\* rows gives no results and so the empty context string.
C2_RetrievalFailureGivesEmptyContext ==
    /\ retrieval = "raised" =>
          /\ ~runError
          /\ context = <<>>
          /\ \/ pc = "AwaitingAnswer"
             \/ /\ pc = "Idle"
                /\ messages # <<>>
                /\ messages[Len(messages)].role = "assistant"
    /\ (retrieval = "ok" /\ table = <<>>) => (results = <<>> /\ context = <<>>)

\* C3: when the Answer Generator call raised in a turn, no exception left
\* get_chat_response, the turn ended with the fixed apology as the assistant
\* message right after the user message of that turn, and the session is Idle
\* again with a history that alternates up to there.
C3_GenerationFailureApology ==
    generation = "raised" =>
        /\ pc = "Idle"
        /\ ~runError
        /\ Len(messages) >= 2
        /\ messages[Len(messages)] = [role |-> "assistant", content |-> ApologyText]
        /\ messages[Len(messages) - 1] = [role |-> "user", content |-> prompt]
        /\ Tail(genInput) = SubSeq(messages, 1, Len(messages) - 1)

\* a second turn whose generation raised, after a first turn that ended with
\* the apology too
C3_Witness ==
    /\ generation = "raised"
    /\ Len(messages) = 4
    /\ messages[2].content = ApologyText
    /\ messages[4].content = ApologyText

\* C4: the clear action is taken only while the session is Idle, and it leaves
\* the history empty whatever it held.
C4_ClearOnlyWhenIdle ==
    event.kind = "clear" =>
        /\ event.during = "Idle"
        /\ messages = <<>>
        /\ pc = "Idle"

\* C5: a prompt is admitted only while the session is Idle, so no two user
\* messages are appended without an assistant message between them.
C5_NoTurnWhileInFlight ==
    /\ event.kind = "submit" => event.during = "Idle"
    /\ \A i \in 1..(Len(messages) - 1) :
          ~(messages[i].role = "user" /\ messages[i + 1].role = "user")

----------------------------------------------------------------------------
(* Properties of get_context and the re-parse loop (specification SpecContext) *)

\* the rendering of one row as the specification words it: the Source line is
\* left out when there is neither a filename nor a page number
SpecifiedRow(row) ==
    row.text
    \o (IF source_parts(row) = <<>> THEN <<>>
        ELSE SourceLabel \o Join(source_parts(row), PartSep))
    \o (IF Truthy(row.metadata.title) THEN TitleLabel \o Val(row.metadata.title) ELSE <<>>)

\* C6: get_context renders each result as its text, a Source line (left out
\* when the result has neither filename nor page numbers) and a Title line
\* (left out when the title is null or empty), joined by a blank line in the
\* order of the results.
C6_ContextRendering ==
    stage # "input" =>
        context = Join([i \in 1..Len(results) |-> SpecifiedRow(results[i])], BlankLine)

FullMetadata(row) ==
    /\ ~IsNone(row.metadata.filename)
    /\ ~IsNone(row.metadata.title)
    /\ ~IsNone(row.metadata.page_numbers)
    /\ Len(Val(row.metadata.page_numbers)) > 0

\* C7: for results that all have a filename, a title and page numbers,
\* re-parsing the context string gives one citation per result, in order, with
\* the rendered source, the title and the text of that result.
C7_CitationRoundTrip ==
    (stage = "parsed" /\ \A i \in 1..Len(results) : FullMetadata(results[i])) =>
        /\ Len(citations) = Len(results)
        /\ \A i \in 1..Len(results) :
              citations[i] = [ source |-> Join(source_parts(results[i]), PartSep),
                               title  |-> Val(results[i].metadata.title),
                               text   |-> results[i].text ]

----------------------------------------------------------------------------
(* Properties of the index build (specifications SpecBuild, SpecBuild2) *)

IsPrefix(s, t) == Len(s) <= Len(t) /\ s = SubSeq(t, 1, Len(s))

\* C8: a build hands the processed chunks to table.add in chunk order, each
\* once, in batches of 1..batch_size records; when every batch succeeded and
\* the build is done, every chunk was submitted and the table holds exactly
\* the n processed chunks, whatever it held before.
C8_BuildIndexesEveryChunkOnce ==
    /\ IsPrefix(Flatten(submitted[1]), Processed(chunks[1]))
    /\ \A k \in 1..Len(submitted[1]) :
          /\ Len(submitted[1][k]) >= 1
          /\ Len(submitted[1][k]) <= batch_size
    /\ bpc[1] = "done" =>
          /\ Flatten(submitted[1]) = Processed(chunks[1])
          /\ table = Processed(chunks[1])
          /\ Len(table) = Len(chunks[1])

\* a finished build of three batches, the last one short, over a table that
\* held rows before
C8_Witness ==
    /\ bpc[1] = "done"
    /\ prev # <<>>
    /\ Len(submitted[1]) = 3
    /\ Len(chunks[1]) > 2 * batch_size
    /\ Len(chunks[1]) < 3 * batch_size

\* C9: after a failed batch submission the table is not half-written: it holds
\* the complete previous index or the complete new one.
C9_NoHalfWrittenTable ==
    bpc[1] = "failed" => (table = prev \/ table = Processed(chunks[1]))

\* C10: two builds never write the table at once, so when both are done the
\* table holds the rows of exactly one of them.
C10_OneBuildWins ==
    (bpc[1] = "done" /\ bpc[2] = "done") =>
        \/ table = Processed(chunks[1])
        \/ table = Processed(chunks[2])
----------------------------------------------------------------------------
(* chunking.py: chunk_markdown_files.  A JSON file of the extracted        *)
(* directory is modelled by its name and by the chunks HybridChunker       *)
(* yields for its document, in the chunker's order.                        *)

\* the k-th chunk the chunker yields for file f
DocChunk(f, k, text, headings) ==
    [ text |-> text, filename |-> f, item |-> k, pages |-> <<k>>, headings |-> headings ]

\* chunker.serialize(chunk): the headings and the text, one per line
serialize(chunk) == Join(chunk.headings \o << chunk.text >>, <<NL>>)

\* not serialized_text.strip()
IsEmptyChunk(chunk) == Strip(serialize(chunk)) = <<>>

\* a filter on chunk.text instead of the serialized text
KeepChunkByText(chunk) == Strip(chunk.text) # <<>>

KeepChunk(chunk) == ~IsEmptyChunk(chunk)

\* non_empty_chunks of one file
non_empty_chunks(doc_chunks) == SelectSeq(doc_chunks, KeepChunk)

RECURSIVE ChunkFilesFrom(_, _, _)
ChunkFilesFrom(json_files, i, acc) ==
    IF i > Len(json_files) THEN acc
    ELSE ChunkFilesFrom(json_files, i + 1, acc \o non_empty_chunks(json_files[i].chunks))

\* chunk_markdown_files() over the JSON files found, when it returns
chunk_markdown_files(json_files) == ChunkFilesFrom(json_files, 1, <<>>)

----------------------------------------------------------------------------
(* embedding.py: the pipeline run up to the index build (lines 24-50),     *)
(* followed by the build of builder 1.  Runs follow one another; between   *)
(* runs the operator may delete the cache artifact, and the documents may  *)
(* change before a run extracts them.                                      *)

FileA == <<"d", "1">>
FileB == <<"d", "2">>

DocA1 ==
    [ name |-> FileA,
      chunks |-> << DocChunk(FileA, 1, <<"a">>, <<>>), DocChunk(FileA, 2, <<SP>>, <<>>) >> ]
DocA2 ==
    [ name |-> FileA,
      chunks |-> << DocChunk(FileA, 1, <<"b">>, <<>>), DocChunk(FileA, 2, <<>>, << <<"H">> >>) >> ]
DocB ==
    [ name |-> FileB, chunks |-> << DocChunk(FileB, 1, <<"c">>, <<>>) >> ]

\* contents of the extracted directory after an extraction
ExtractedStates == { <<>>, <<DocA1>>, <<DocA2, DocB>> }

\* cache_path.exists() that never finds the artifact
CacheNeverExists(c) == FALSE

\* cache_path.exists()
CacheExists(c) == ~IsNone(c)

\* a run of embedding.py starts
StartRun ==
    /\ rpc = "idle"
    /\ runs < MaxRuns
    /\ runs' = runs + 1
    /\ rpc' = "extract"
    /\ cacheAtStart' = cache
    /\ chunked' = FALSE
    /\ chunks' = [chunks EXCEPT ![1] = <<>>]
    /\ bpc' = [bpc EXCEPT ![1] = "off"]
    /\ bi' = [bi EXCEPT ![1] = 0]
    /\ submitted' = [submitted EXCEPT ![1] = <<>>]
    /\ prev' = table
    /\ UNCHANGED <<pdf_files, xpc, xi, documents, extracted, cpc, ci, all_chunks, cache>>
    /\ UNCHANGED <<stage, table>>
    /\ UNCHANGED chatVars
    /\ UNCHANGED ctxVars

\* line 26: extract_pdf_documents() returns, the directory holds v
ExtractStep(v) ==
    /\ rpc = "extract"
    /\ extracted' = v
    /\ rpc' = "check"
    /\ UNCHANGED <<pdf_files, xpc, xi, documents, cpc, ci, all_chunks,
                   cache, runs, cacheAtStart, chunked>>
    /\ UNCHANGED <<stage, table>>
    /\ UNCHANGED chatVars
    /\ UNCHANGED ctxVars
    /\ UNCHANGED buildVars

\* line 26: extract_pdf_documents() raises, the run ends
ExtractStepRaises(v) ==
    /\ rpc = "extract"
    /\ extracted' = v
    /\ rpc' = "idle"
    /\ UNCHANGED <<pdf_files, xpc, xi, documents, cpc, ci, all_chunks,
                   cache, runs, cacheAtStart, chunked>>
    /\ UNCHANGED <<stage, table>>
    /\ UNCHANGED chatVars
    /\ UNCHANGED ctxVars
    /\ UNCHANGED buildVars

\* lines 33-36: no extracted JSON file, exit(1)
ExitNoJson ==
    /\ rpc = "check"
    /\ extracted = <<>>
    /\ rpc' = "idle"
    /\ UNCHANGED <<pdf_files, xpc, xi, documents, extracted, cpc, ci, all_chunks,
                   cache, runs, cacheAtStart, chunked>>
    /\ UNCHANGED <<stage, table>>
    /\ UNCHANGED chatVars
    /\ UNCHANGED ctxVars
    /\ UNCHANGED buildVars

\* lines 40-44: the artifact exists, chunks = pickle.load(f)
LoadCache ==
    /\ rpc = "check"
    /\ extracted # <<>>
    /\ CacheExists(cache)
    /\ chunks' = [chunks EXCEPT ![1] = Val(cache)]
    /\ bpc' = [bpc EXCEPT ![1] = "start"]
    /\ rpc' = "index"
    /\ UNCHANGED <<pdf_files, xpc, xi, documents, extracted, cpc, ci, all_chunks,
                   cache, runs, cacheAtStart, chunked>>
    /\ UNCHANGED <<bi, prev, submitted>>
    /\ UNCHANGED <<stage, table>>
    /\ UNCHANGED chatVars
    /\ UNCHANGED ctxVars

\* lines 45-50: no artifact, chunks = chunk_markdown_files(); pickle.dump(chunks, f)
ChunkAndStore ==
    /\ rpc = "check"
    /\ extracted # <<>>
    /\ ~CacheExists(cache)
    /\ chunked' = TRUE
    /\ chunks' = [chunks EXCEPT ![1] = chunk_markdown_files(extracted)]
    /\ cache' = Some(chunk_markdown_files(extracted))
    /\ bpc' = [bpc EXCEPT ![1] = "start"]
    /\ rpc' = "index"
    /\ UNCHANGED <<pdf_files, xpc, xi, documents, extracted, cpc, ci, all_chunks,
                   runs, cacheAtStart>>
    /\ UNCHANGED <<bi, prev, submitted>>
    /\ UNCHANGED <<stage, table>>
    /\ UNCHANGED chatVars
    /\ UNCHANGED ctxVars

\* line 47: chunk_markdown_files() raises, the run ends with nothing stored
ChunkRaises ==
    /\ rpc = "check"
    /\ extracted # <<>>
    /\ ~CacheExists(cache)
    /\ chunked' = TRUE
    /\ rpc' = "idle"
    /\ UNCHANGED <<pdf_files, xpc, xi, documents, extracted, cpc, ci, all_chunks,
                   cache, runs, cacheAtStart>>
    /\ UNCHANGED <<stage, table>>
    /\ UNCHANGED chatVars
    /\ UNCHANGED ctxVars
    /\ UNCHANGED buildVars

\* the index build of the run has ended, and with it the run
EndRun ==
    /\ rpc = "index"
    /\ bpc[1] \in {"done", "failed"}
    /\ rpc' = "idle"
    /\ UNCHANGED <<pdf_files, xpc, xi, documents, extracted, cpc, ci, all_chunks,
                   cache, runs, cacheAtStart, chunked>>
    /\ UNCHANGED <<stage, table>>
    /\ UNCHANGED chatVars
    /\ UNCHANGED ctxVars
    /\ UNCHANGED buildVars

\* between runs the operator deletes data-pipeline/chunks.pkl
DeleteCache ==
    /\ rpc = "idle"
    /\ CacheExists(cache)
    /\ cache' = None
    /\ UNCHANGED <<pdf_files, xpc, xi, documents, extracted, cpc, ci, all_chunks,
                   rpc, runs, cacheAtStart, chunked>>
    /\ UNCHANGED <<stage, table>>
    /\ UNCHANGED chatVars
    /\ UNCHANGED ctxVars
    /\ UNCHANGED buildVars

InitPipeline ==
    /\ ChatIdle
    /\ results = <<>>
    /\ context = <<>>
    /\ citations = <<>>
    /\ stage = "pipeline"
    /\ table = <<>>
    /\ BuildOff
    /\ pdf_files = <<>>
    /\ xpc = "off"
    /\ xi = 0
    /\ documents = <<>>
    /\ extracted \in ExtractedStates
    /\ cpc = "off"
    /\ ci = 0
    /\ all_chunks = <<>>
    /\ cache = None
    /\ rpc = "idle"
    /\ runs = 0
    /\ cacheAtStart = cache
    /\ chunked = FALSE

NextPipeline ==
    \/ StartRun
    \/ \E v \in ExtractedStates : ExtractStep(v)
    \/ \E v \in ExtractedStates : ExtractStepRaises(v)
    \/ ExitNoJson
    \/ LoadCache
    \/ ChunkAndStore
    \/ ChunkRaises
    \/ CreateTable(1)
    \/ AddBatch(1)
    \/ AddBatchRaises(1)
    \/ Finish(1)
    \/ EndRun
    \/ DeleteCache

SpecPipeline == InitPipeline /\ [][NextPipeline]_vars

----------------------------------------------------------------------------
(* Properties of the chunk cache (specification SpecPipeline) *)

----------------------------------------------------------------------------
(* pdf_extraction.py: extract_pdf_documents.  Each PDF found comes with    *)
(* what doc_converter.convert does for it: it returns a result with a      *)
(* document, a result without one, or it raises.                           *)

ConvOutcomes == {"ok", "nodoc", "raises"}

\* list(pdf_folder.glob("*.pdf")) with n files
PdfLists ==
    UNION { { [i \in 1..n |-> [stem |-> i, conv |-> c[i]]] : c \in [1..n -> ConvOutcomes] } :
              n \in 0..MaxPdfs }

\* result.document of a converted PDF, as the JSON file written for it
ConvertedDoc(pdf) ==
    LET name == <<"d", Digits[pdf.stem + 1]>>
    IN  [ name |-> name, chunks |-> << DocChunk(name, 1, <<"a">>, <<>>) >> ]

RECURSIVE WriteJsonFrom(_, _, _)
WriteJsonFrom(dir, doc, i) ==
    IF i > Len(dir) THEN Append(dir, doc)
    ELSE IF dir[i].name = doc.name THEN [dir EXCEPT ![i] = doc]
    ELSE WriteJsonFrom(dir, doc, i + 1)

\* open(output_file, "w"); f.write(json_output): a file of that name is replaced
WriteJson(dir, doc) == WriteJsonFrom(dir, doc, 1)

extractUnchanged ==
    /\ UNCHANGED <<cpc, ci, all_chunks, cache, rpc, runs, cacheAtStart, chunked>>
    /\ UNCHANGED <<stage, table>>
    /\ UNCHANGED chatVars
    /\ UNCHANGED ctxVars
    /\ UNCHANGED buildVars

\* lines 38-40: no PDF found, return []
ExtractNoPdfs ==
    /\ xpc = "running"
    /\ pdf_files = <<>>
    /\ documents' = <<>>
    /\ xpc' = "returned"
    /\ UNCHANGED <<pdf_files, xi, extracted>>
    /\ extractUnchanged

\* one pass of the loop: convert returns a document, it is appended and saved
ConvertOk ==
    /\ xpc = "running"
    /\ xi < Len(pdf_files)
    /\ pdf_files[xi + 1].conv = "ok"
    /\ documents' = Append(documents, ConvertedDoc(pdf_files[xi + 1]))
    /\ extracted' = WriteJson(extracted, ConvertedDoc(pdf_files[xi + 1]))
    /\ xi' = xi + 1
    /\ UNCHANGED <<pdf_files, xpc>>
    /\ extractUnchanged

\* one pass of the loop: result.document is empty, "Extraction failed for"
ConvertNoDocument ==
    /\ xpc = "running"
    /\ xi < Len(pdf_files)
    /\ pdf_files[xi + 1].conv = "nodoc"
    /\ xi' = xi + 1
    /\ UNCHANGED <<pdf_files, xpc, documents, extracted>>
    /\ extractUnchanged

\* one pass of the loop: convert raises; nothing in the loop catches it
ConvertRaises ==
    /\ xpc = "running"
    /\ xi < Len(pdf_files)
    /\ pdf_files[xi + 1].conv = "raises"
    /\ xpc' = "raised"
    /\ UNCHANGED <<pdf_files, xi, documents, extracted>>
    /\ extractUnchanged

\* lines 88-89: the loop is exhausted, return documents
ExtractReturn ==
    /\ xpc = "running"
    /\ pdf_files # <<>>
    /\ xi = Len(pdf_files)
    /\ xpc' = "returned"
    /\ UNCHANGED <<pdf_files, xi, documents, extracted>>
    /\ extractUnchanged

InitExtract ==
    /\ ChatIdle
    /\ results = <<>>
    /\ context = <<>>
    /\ citations = <<>>
    /\ stage = "extract"
    /\ table = <<>>
    /\ BuildOff
    /\ pdf_files \in PdfLists
    /\ xpc = "running"
    /\ xi = 0
    /\ documents = <<>>
    /\ extracted = <<>>
    /\ cpc = "off"
    /\ ci = 0
    /\ all_chunks = <<>>
    /\ cache = None
    /\ rpc = "off"
    /\ runs = 0
    /\ cacheAtStart = None
    /\ chunked = FALSE

NextExtract ==
    \/ ExtractNoPdfs
    \/ ConvertOk
    \/ ConvertNoDocument
    \/ ConvertRaises
    \/ ExtractReturn

SpecExtract == InitExtract /\ [][NextExtract]_vars

----------------------------------------------------------------------------
(* Properties of extract_pdf_documents (specification SpecExtract) *)

\* the documents of the PDFs whose conversion succeeds, in the order of the PDFs
ConvertedDocs(pdfs) ==
    LET ok == SelectSeq(pdfs, LAMBDA pdf : pdf.conv = "ok")
    IN  [i \in 1..Len(ok) |-> ConvertedDoc(ok[i])]

\* C12: a PDF whose conversion fails is skipped and the loop goes on with the
\* remaining PDFs: when extract_pdf_documents has ended, the written JSON files
\* and the returned list cover exactly the PDFs that converted successfully.
C12_FailedPdfSkipped ==
    xpc \in {"returned", "raised"} =>
        /\ extracted = ConvertedDocs(pdf_files)
        /\ documents = ConvertedDocs(pdf_files)
        /\ xpc = "returned"
----------------------------------------------------------------------------
(* chunking.py: chunk_markdown_files as a loop over the JSON files found.  *)
(* A file is given with the chunks chunker.chunk yields for its document.  *)

\* text and headings of a chunk: plain text, whitespace only, empty, and
\* empty text under a heading (its serialized text is not blank)
ChunkKinds ==
    { [text |-> <<"a">>, headings |-> <<>>],
      [text |-> <<SP>>,  headings |-> <<>>],
      [text |-> <<>>,    headings |-> <<>>],
      [text |-> <<>>,    headings |-> << <<"H">> >>] }

JsonName(i) == <<"d", Digits[i + 1]>>

\* list(chunker.chunk(dl_doc=doc)) with k chunks for the document of file i
ChunkListsOf(i, k) ==
    { [j \in 1..k |-> DocChunk(JsonName(i), j, kinds[j].text, kinds[j].headings)] :
        kinds \in [1..k -> ChunkKinds] }

\* the files i..n, yielding at most budget chunks altogether
RECURSIVE JsonFilesFrom(_, _, _)
JsonFilesFrom(i, n, budget) ==
    IF i > n THEN { <<>> }
    ELSE UNION { UNION { { << [name |-> JsonName(i), chunks |-> cs] >> \o rest :
                             rest \in JsonFilesFrom(i + 1, n, budget - k) } :
                         cs \in ChunkListsOf(i, k) } :
                 k \in 0..budget }

\* list(EXTRACTED_DIR.glob("*.json"))
JsonFileLists == UNION { JsonFilesFrom(1, n, MaxChunks) : n \in 0..MaxFiles }

chunkUnchanged ==
    /\ UNCHANGED <<pdf_files, xpc, xi, documents, cache, rpc, runs, cacheAtStart, chunked>>
    /\ UNCHANGED <<stage, table>>
    /\ UNCHANGED chatVars
    /\ UNCHANGED ctxVars
    /\ UNCHANGED buildVars

\* lines 53-55: no JSON file found, return []
ChunkNoFiles ==
    /\ cpc = "running"
    /\ extracted = <<>>
    /\ all_chunks' = <<>>
    /\ cpc' = "returned"
    /\ UNCHANGED <<extracted, ci>>
    /\ chunkUnchanged

\* one pass of the loop over json_files: load, chunk, filter, extend
ChunkFile ==
    /\ cpc = "running"
    /\ ci < Len(extracted)
    /\ all_chunks' = all_chunks \o non_empty_chunks(extracted[ci + 1].chunks)
    /\ ci' = ci + 1
    /\ UNCHANGED <<extracted, cpc>>
    /\ chunkUnchanged

\* one pass of the loop: reading, json.loads, model_validate or the chunker raises
ChunkFileRaises ==
    /\ cpc = "running"
    /\ ci < Len(extracted)
    /\ cpc' = "raised"
    /\ UNCHANGED <<extracted, ci, all_chunks>>
    /\ chunkUnchanged

\* lines 114-115: the loop is exhausted, return all_chunks
ChunkReturn ==
    /\ cpc = "running"
    /\ extracted # <<>>
    /\ ci = Len(extracted)
    /\ cpc' = "returned"
    /\ UNCHANGED <<extracted, ci, all_chunks>>
    /\ chunkUnchanged

InitChunk ==
    /\ ChatIdle
    /\ results = <<>>
    /\ context = <<>>
    /\ citations = <<>>
    /\ stage = "chunk"
    /\ table = <<>>
    /\ BuildOff
    /\ pdf_files = <<>>
    /\ xpc = "off"
    /\ xi = 0
    /\ documents = <<>>
    /\ extracted \in JsonFileLists
    /\ cpc = "running"
    /\ ci = 0
    /\ all_chunks = <<>>
    /\ cache = None
    /\ rpc = "off"
    /\ runs = 0
    /\ cacheAtStart = None
    /\ chunked = FALSE

NextChunk ==
    \/ ChunkNoFiles
    \/ ChunkFile
    \/ ChunkFileRaises
    \/ ChunkReturn

SpecChunk == InitChunk /\ [][NextChunk]_vars

----------------------------------------------------------------------------
(* Properties of chunk_markdown_files (specification SpecChunk) *)

\* position of the file a chunk comes from, in file-processing order
FileIndex(chunk) == CHOOSE i \in 1..Len(extracted) : extracted[i].name = chunk.filename

\* chunk c comes before chunk d: an earlier file, or earlier in the same file
ComesBefore(c, d) ==
    \/ FileIndex(c) < FileIndex(d)
    \/ FileIndex(c) = FileIndex(d) /\ c.item < d.item

NotBlank(chunk) == Strip(serialize(chunk)) # <<>>

\* C13: after the loop has passed ci files, all_chunks holds exactly the chunks
\* of those files whose serialized text is not empty or whitespace-only, each
\* once, in the chunker's order within a file and in file order across files;
\* a file yielding no chunk adds nothing and the loop goes on; the function
\* returns only after passing every file, and returns [] when there is none.
C13_NonBlankChunksInOrder ==
    /\ cpc = "returned" => ci = Len(extracted)
    /\ extracted = <<>> => all_chunks = <<>>
    /\ \A j \in 1..Len(all_chunks) :
          /\ NotBlank(all_chunks[j])
          /\ \E i \in 1..ci : \E k \in 1..Len(extracted[i].chunks) :
                extracted[i].chunks[k] = all_chunks[j]
    /\ \A i \in 1..ci : \A k \in 1..Len(extracted[i].chunks) :
          NotBlank(extracted[i].chunks[k]) =>
              \E j \in 1..Len(all_chunks) : all_chunks[j] = extracted[i].chunks[k]
    /\ \A j1 \in 1..Len(all_chunks) : \A j2 \in 1..Len(all_chunks) :
          j1 < j2 => ComesBefore(all_chunks[j1], all_chunks[j2])

\* returned from two files: the first yields no chunk, the second a blank chunk
\* that is dropped and a chunk with empty text under a heading that is kept
C13_Witness ==
    /\ cpc = "returned"
    /\ Len(extracted) = 2
    /\ extracted[1].chunks = <<>>
    /\ Len(extracted[2].chunks) = 2
    /\ ~NotBlank(extracted[2].chunks[1])
    /\ extracted[2].chunks[2].text = <<>>
    /\ all_chunks = << extracted[2].chunks[2] >>

====
